---- MODULE Spec2Model ----
(***************************************************************************)
(* A model of pynguin's SearchStatistics collector                         *)
(* (src/pynguin/utils/statistics/searchstatistics.py).                     *)
(*                                                                         *)
(* A name is a sequence of string tokens standing for their concatenation: *)
(* <<"Coverage">> is "Coverage", <<"CoverageTimeline", "_", "2">> is       *)
(* "CoverageTimeline_2".  A dict is a function whose domain is its key     *)
(* set.  Numbers stand for the metric values of a chromosome.              *)
(***************************************************************************)
EXTENDS Integers, Sequences, FiniteSets, TLC

VARIABLES
    backend,            \* self._backend: "CONSOLE", "CSV" or "NONE"
    config_output_variables, \* config.INSTANCE.output_variables, as tokens
    config_seed,        \* config.INSTANCE.seed
    output_variables,   \* self._output_variables: name -> OutputVariable
    sequence_values,    \* the _values list of each sequence factory
    direct_value,       \* the _value of the TotalExceptionsTimeline factory
    best_individual,    \* self._best_individual
    written,            \* the dicts handed to the backend's write_data
    history,            \* TestSuiteChromosomes passed to current_individual
    coverage_set_directly, \* Coverage was set directly since the last of them
    call,               \* the last call made on the collector
    returned,           \* what the last call returned or raised
    variables,          \* the dict returned by the last _get_output_variables
    logged,             \* the log records emitted by the last call
    objects,            \* the assertions, trace entries and sets created
    acall,              \* the last call made on one of them, with its result
    collaborator_calls, \* the calls that call made on a visitor or a source
    objective,          \* whether the search minimises or maximises fitness
    population,         \* the individuals of the search's current generation
    reported            \* the individuals it reported, one per generation

vars == <<backend, config_output_variables, config_seed, output_variables,
          sequence_values,
          direct_value, best_individual, written, history,
          coverage_set_directly, call, returned, variables, logged>>

\* the variables of the assertions and trace entries
assertion_vars == <<objects, acall, collaborator_calls>>

\* the variables of the search
search_vars == <<objective, population, reported>>

----------------------------------------------------------------------------
(* Bounds of the model. *)

\* current_individual is called at most MaxGen times with a test suite.
MaxGen == 3

----------------------------------------------------------------------------
(* Values and dicts. *)

None == [kind |-> "None"]

\* The value "" of a skipped output variable (line 185).
EmptyString == -1

N(s) == <<s>>

\* str(i), for the indices of a time line
IndexStr(i) == <<"0", "1", "2", "3", "4", "5", "6", "7", "8", "9">>[i + 1]

EmptyDict == [k \in {} |-> None]

Put(d, k, v) == [x \in DOMAIN d \cup {k} |-> IF x = k THEN v ELSE d[x]]

OutputVariable(name, value) == [name |-> name, value |-> value]

RECURSIVE PutAll(_, _)
\* d updated with every OutputVariable of the list vs, in order, each under its name
PutAll(d, vs) ==
    IF vs = <<>> THEN d
    ELSE PutAll(Put(d, Head(vs).name, Head(vs)), Tail(vs))

----------------------------------------------------------------------------
(* Configuration and inputs. *)

\* config.INSTANCE.statistics_backend
StatisticsBackend == {"CONSOLE", "CSV", "NONE"}

\* config.INSTANCE.seed
Seeds == {11}

\* config.INSTANCE.output_variables: a string of names, commas and blanks
ConfigStrings ==
    { <<>>,
      <<"Coverage", ",", " ", "CoverageTimeline", " ">>,
      <<"Size", ",", "Missing", ",", "Coverage">>,
      <<" ", "TotalExceptionsTimeline", ",", "criterion">> }

\* The chromosomes handed to current_individual.
TestSuiteChromosomes ==
    { [kind |-> "TestSuiteChromosome", size |-> 3,
       total_length_of_test_cases |-> 5, coverage |-> 1, fitness |-> 8],
      [kind |-> "TestSuiteChromosome", size |-> 4,
       total_length_of_test_cases |-> 6, coverage |-> 2, fitness |-> 7] }

OtherChromosomes ==
    { [kind |-> "TestCaseChromosome", size |-> 10,
       total_length_of_test_cases |-> 11, coverage |-> 0, fitness |-> 12] }

Chromosomes == TestSuiteChromosomes \cup OtherChromosomes

\* isinstance(individual, chrom.Chromosome): any chromosome passes
IsChromosome(individual) ==
    individual.kind \in {"TestSuiteChromosome", "TestCaseChromosome"}

\* isinstance(individual, tsc.TestSuiteChromosome)
IsTestSuiteChromosome(individual) == individual.kind = "TestSuiteChromosome"

\* The values set directly.
DirectValues == {9}

\* The names set directly through set_output_variable.
DirectNames ==
    { N("TARGET_CLASS"), N("LengthTimeline") }

\* The members of RuntimeVariable set through
\* set_output_variable_for_runtime_variable.
RuntimeVariables ==
    { "Coverage", "CoverageTimeline", "SizeTimeline",
      "TotalExceptionsTimeline" }

\* time.time_ns() - self._start_time
ElapsedTimes == {40}

----------------------------------------------------------------------------
(* The factories. *)

\* self._variable_factories, in the order _init_factories fills it
VariableFactories == <<"Length", "Size", "Coverage", "Fitness">>

\* self._sequence_output_variable_factories, in the order
\* _fill_sequence_output_variable_factories fills it
SequenceFactories ==
    <<"CoverageTimeline", "SizeTimeline", "LengthTimeline",
      "TotalExceptionsTimeline">>

Range(s) == { s[i] : i \in DOMAIN s }

VariableFactoryNames == { N(f) : f \in Range(VariableFactories) }

SequenceFactoryNames == { N(f) : f \in Range(SequenceFactories) }

\* The factories that are a DirectSequenceOutputVariableFactory.
DirectSequenceFactoryNames == { N("TotalExceptionsTimeline") }

\* DirectSequenceOutputVariableFactory.get_integer: the start value
StartValue == 0

\* A get_data whose Size factory reads the total length.
get_data_size_as_length(factory, individual) ==
    CASE factory = "Length" -> individual.total_length_of_test_cases
      [] factory = "Size" -> individual.total_length_of_test_cases
      [] factory = "Coverage" -> individual.coverage
      [] factory = "Fitness" -> individual.fitness

\* get_data of the four _Chromosome...OutputVariableFactory classes
get_data(factory, individual) ==
    CASE factory = "Length" -> individual.total_length_of_test_cases
      [] factory = "Size" -> individual.size
      [] factory = "Coverage" -> individual.coverage
      [] factory = "Fitness" -> individual.fitness

\* ChromosomeOutputVariableFactory.get_variable
get_variable(factory, individual) ==
    OutputVariable(N(factory), get_data(factory, individual))

\* A get_value whose coverage time line reads the size.
get_value_size_for_coverage(factory, individual) ==
    CASE factory = "CoverageTimeline" -> individual.size
      [] factory = "SizeTimeline" -> individual.size
      [] factory = "LengthTimeline" -> individual.total_length_of_test_cases

\* get_value of the three _...SequenceOutputVariableFactory classes
get_value(factory, individual) ==
    CASE factory = "CoverageTimeline" -> individual.coverage
      [] factory = "SizeTimeline" -> individual.size
      [] factory = "LengthTimeline" -> individual.total_length_of_test_cases

\* SequenceOutputVariableFactory.update on every factory: the value of the
\* moment is appended to the time line; a direct factory's value of the
\* moment is the value last set (dv)
update(sv, individual, dv) ==
    [f \in DOMAIN sv |->
        Append(sv[f], IF N(f) \in DirectSequenceFactoryNames
                      THEN dv
                      ELSE get_value(f, individual))]

\* SequenceOutputVariableFactory.get_output_variables: one variable per
\* position of the time line, named <name>_<position>
get_output_variables(factory, sv) ==
    [i \in 1..Len(sv[factory]) |->
        OutputVariable(<<factory, "_", IndexStr(i)>>, sv[factory][i])]

----------------------------------------------------------------------------
(* The requested names. *)

\* the default list of requested names
_get_all_output_variable_names ==
    <<N("TARGET_CLASS"), N("criterion"), N("Coverage")>>

RECURSIVE split(_, _)
\* str.split(","): the pieces of s between its commas, cur being the piece
\* under way
split(s, cur) ==
    IF s = <<>> THEN <<cur>>
    ELSE IF Head(s) = "," THEN <<cur>> \o split(Tail(s), <<>>)
    ELSE split(Tail(s), Append(cur, Head(s)))

RECURSIVE lstrip(_)
lstrip(s) ==
    IF s # <<>> /\ Head(s) = " " THEN lstrip(Tail(s)) ELSE s

RECURSIVE rstrip(_)
rstrip(s) ==
    IF s # <<>> /\ s[Len(s)] = " " THEN rstrip(SubSeq(s, 1, Len(s) - 1)) ELSE s

\* A strip that removes the leading blanks only.
strip_leading_only(s) == lstrip(s)

\* str.strip()
strip(s) == rstrip(lstrip(s))

\* the requested names: the default list, or the configured entries
_get_output_variable_names(config) ==
    IF config = <<>>
    THEN _get_all_output_variable_names
    ELSE LET entries == split(config, <<>>)
         IN  [i \in DOMAIN entries |-> strip(entries[i])]

----------------------------------------------------------------------------
(* Resolution of the requested names. *)

RECURSIVE resolve_factory_first(_, _, _, _, _, _)
\* A resolution that asks the chromosome factories before the flat dict.
resolve_factory_first(names, acc, ov, sv, individual, skip_missing) ==
    IF names = <<>> THEN [variables |-> acc, logged |-> <<>>]
    ELSE
      LET variable_name == Head(names)
          rest == Tail(names)
      IN  IF variable_name \in VariableFactoryNames
          THEN resolve_factory_first(rest,
                       Put(acc, variable_name,
                           get_variable(variable_name[1], individual)),
                       ov, sv, individual, skip_missing)
          ELSE IF variable_name \in DOMAIN ov
          THEN resolve_factory_first(rest,
                       Put(acc, variable_name, ov[variable_name]),
                       ov, sv, individual, skip_missing)
          ELSE IF variable_name \in SequenceFactoryNames
          THEN resolve_factory_first(rest,
                       PutAll(acc, get_output_variables(variable_name[1], sv)),
                       ov, sv, individual, skip_missing)
          ELSE IF skip_missing
          THEN resolve_factory_first(rest,
                       Put(acc, variable_name,
                           OutputVariable(variable_name, EmptyString)),
                       ov, sv, individual, skip_missing)
          ELSE [variables |-> EmptyDict,
                logged |-> <<"error: No obtained value for output variable">>]

RECURSIVE resolve_keep_partial(_, _, _, _, _, _)
\* A resolution that, on a name without a value, returns the dict built so
\* far instead of an empty one.
resolve_keep_partial(names, acc, ov, sv, individual, skip_missing) ==
    IF names = <<>> THEN [variables |-> acc, logged |-> <<>>]
    ELSE
      LET variable_name == Head(names)
          rest == Tail(names)
      IN  IF variable_name \in DOMAIN ov
          THEN resolve_keep_partial(rest,
                       Put(acc, variable_name, ov[variable_name]),
                       ov, sv, individual, skip_missing)
          ELSE IF variable_name \in VariableFactoryNames
          THEN resolve_keep_partial(rest,
                       Put(acc, variable_name,
                           get_variable(variable_name[1], individual)),
                       ov, sv, individual, skip_missing)
          ELSE IF variable_name \in SequenceFactoryNames
          THEN resolve_keep_partial(rest,
                       PutAll(acc, get_output_variables(variable_name[1], sv)),
                       ov, sv, individual, skip_missing)
          ELSE IF skip_missing
          THEN resolve_keep_partial(rest,
                       Put(acc, variable_name,
                           OutputVariable(variable_name, EmptyString)),
                       ov, sv, individual, skip_missing)
          ELSE [variables |-> acc,
                logged |-> <<"error: No obtained value for output variable">>]

RECURSIVE resolve(_, _, _, _, _, _)
\* The loop of _get_output_variables over the names left, acc being the
\* dict built so far: the dict returned and the error logged, if any.
resolve(names, acc, ov, sv, individual, skip_missing) ==
    IF names = <<>> THEN [variables |-> acc, logged |-> <<>>]
    ELSE
      LET variable_name == Head(names)
          rest == Tail(names)
      IN  IF variable_name \in DOMAIN ov
          THEN resolve(rest, Put(acc, variable_name, ov[variable_name]),
                       ov, sv, individual, skip_missing)
          ELSE IF variable_name \in VariableFactoryNames
          THEN resolve(rest,
                       Put(acc, variable_name,
                           get_variable(variable_name[1], individual)),
                       ov, sv, individual, skip_missing)
          ELSE IF variable_name \in SequenceFactoryNames
          THEN resolve(rest,
                       PutAll(acc, get_output_variables(variable_name[1], sv)),
                       ov, sv, individual, skip_missing)
          ELSE IF skip_missing
          THEN resolve(rest,
                       Put(acc, variable_name,
                           OutputVariable(variable_name, EmptyString)),
                       ov, sv, individual, skip_missing)
          ELSE [variables |-> EmptyDict,
                logged |-> <<"error: No obtained value for output variable">>]

\* _get_output_variables, on the collector's dicts ov and sv
GetOutputVariables(config, ov, sv, individual, skip_missing) ==
    resolve(_get_output_variable_names(config), EmptyDict, ov, sv,
            individual, skip_missing)

----------------------------------------------------------------------------
(* Setting a variable directly. *)

\* A set_output_variable that hands the value to any sequence factory,
\* direct or not.
SetOutputVariableUnchecked(ov, dv, registered, variable) ==
    IF variable.name \in registered
    THEN [ov |-> ov, dv |-> variable.value, raised |-> "None"]
    ELSE [ov |-> Put(ov, variable.name, variable), dv |-> dv,
          raised |-> "None"]

\* A set_output_variable that stores every variable in the flat dict.
SetOutputVariableFlat(ov, dv, registered, variable) ==
    [ov |-> Put(ov, variable.name, variable), dv |-> dv, raised |-> "None"]

\* set_output_variable on the flat dict ov and the direct factory's value
\* dv, registered being the names in _sequence_output_variable_factories:
\* the dict and the value after the call, and what it raised.
SetOutputVariable(ov, dv, registered, variable) ==
    IF variable.name \in registered
    THEN IF variable.name \in DirectSequenceFactoryNames
         THEN [ov |-> ov, dv |-> variable.value, raised |-> "None"]
         ELSE [ov |-> ov, dv |-> dv, raised |-> "AssertionError"]
    ELSE [ov |-> Put(ov, variable.name, variable), dv |-> dv,
          raised |-> "None"]

RECURSIVE SetAll(_, _, _, _)
\* the first loop of current_individual: set_output_variable for every
\* variable of the list vs
SetAll(ov, dv, registered, vs) ==
    IF vs = <<>> THEN [ov |-> ov, dv |-> dv, raised |-> "None"]
    ELSE LET r == SetOutputVariable(ov, dv, registered, Head(vs))
         IN  IF r.raised # "None" THEN r
             ELSE SetAll(r.ov, r.dv, registered, Tail(vs))

----------------------------------------------------------------------------
(* The collector. *)

\* __init__: the state of a collector once constructed.  Random_Seed is set
\* before the sequence factories are registered.
Constructed(backends, configs, seeds) ==
    /\ backend \in backends
    /\ config_output_variables \in configs
    /\ config_seed \in seeds
    /\ output_variables =
           SetOutputVariable(EmptyDict, StartValue, {},
                             OutputVariable(N("Random_Seed"), config_seed)).ov
    /\ sequence_values = [f \in Range(SequenceFactories) |-> <<>>]
    /\ direct_value = StartValue
    /\ best_individual = None
    /\ written = <<>>
    /\ history = <<>>
    /\ coverage_set_directly = FALSE
    /\ call = [op |-> "__init__"]
    /\ returned = "None"
    /\ variables = EmptyDict
    /\ logged = <<>>

\* no assertion was created
NoAssertions ==
    /\ objects = <<>>
    /\ acall = [op |-> "none"]
    /\ collaborator_calls = <<>>

\* no search was started
NoSearch ==
    /\ objective = "min"
    /\ population = <<>>
    /\ reported = <<>>

Init ==
    /\ Constructed(StatisticsBackend, ConfigStrings, Seeds)
    /\ NoAssertions
    /\ NoSearch

\* current_individual(individual)
current_individual(individual) ==
    /\ IsTestSuiteChromosome(individual) => Len(history) < MaxGen
    /\ call' = [op |-> "current_individual", individual |-> individual]
    /\ history' = IF IsTestSuiteChromosome(individual)
                  THEN Append(history, individual)
                  ELSE history
    /\ coverage_set_directly' = (coverage_set_directly
                                  /\ ~IsTestSuiteChromosome(individual))
    /\ returned' = "None"
    /\ variables' = EmptyDict
    /\ IF backend = "NONE"
       THEN /\ logged' = <<>>
            /\ UNCHANGED <<output_variables, sequence_values, direct_value>>
       ELSE IF ~IsTestSuiteChromosome(individual)
       THEN /\ logged' = <<"warning: SearchStatistics expected a TestSuiteChromosome">>
            /\ UNCHANGED <<output_variables, sequence_values, direct_value>>
       ELSE LET r == SetAll(output_variables, direct_value,
                            SequenceFactoryNames,
                            [i \in DOMAIN VariableFactories |->
                               get_variable(VariableFactories[i], individual)])
            IN  /\ logged' = <<"debug: Received individual">>
                /\ output_variables' = r.ov
                /\ direct_value' = r.dv
                /\ sequence_values' = update(sequence_values, individual, r.dv)
    /\ UNCHANGED <<backend, config_output_variables, config_seed,
                   best_individual, written>>
    /\ UNCHANGED <<assertion_vars, search_vars>>

\* set_output_variable(variable)
set_output_variable(variable) ==
    LET r == SetOutputVariable(output_variables, direct_value,
                               SequenceFactoryNames, variable)
    IN  /\ call' = [op |-> "set_output_variable", variable |-> variable]
        /\ output_variables' = r.ov
        /\ direct_value' = r.dv
        /\ returned' = r.raised
        /\ variables' = EmptyDict
        /\ logged' = <<>>
        /\ coverage_set_directly' = (coverage_set_directly
                                      \/ variable.name = N("Coverage"))
        /\ UNCHANGED <<backend, config_output_variables, config_seed,
                       sequence_values, best_individual, written, history>>
        /\ UNCHANGED <<assertion_vars, search_vars>>

\* set_output_variable_for_runtime_variable(variable, value)
set_output_variable_for_runtime_variable(variable, value) ==
    set_output_variable(OutputVariable(N(variable), value))

\* a call of _get_output_variables(individual, skip_missing)
_get_output_variables(individual, skip_missing) ==
    LET r == GetOutputVariables(config_output_variables, output_variables,
                                sequence_values, individual, skip_missing)
    IN  /\ call' = [op |-> "_get_output_variables",
                    individual |-> individual, skip_missing |-> skip_missing]
        /\ returned' = "dict"
        /\ variables' = r.variables
        /\ logged' = r.logged
        /\ UNCHANGED <<backend, config_output_variables, config_seed,
                       output_variables, sequence_values, direct_value, best_individual,
                       written, history, coverage_set_directly>>
        /\ UNCHANGED <<assertion_vars, search_vars>>

\* A write_statistics that records the elapsed time before it looks for a
\* backend.
write_statistics_timing_first ==
    /\ call' = [op |-> "write_statistics"]
    /\ variables' = EmptyDict
    /\ logged' = <<"info: Writing statistics">>
    /\ returned' = "False"
    /\ \E elapsed \in ElapsedTimes :
         output_variables' =
           Put(output_variables, N("total_time"),
               OutputVariable(N("total_time"), elapsed))
    /\ UNCHANGED <<backend, config_output_variables, config_seed,
                   sequence_values, direct_value, best_individual, written,
                   history, coverage_set_directly>>
    /\ UNCHANGED <<assertion_vars, search_vars>>

\* A write_statistics that starts a new flat dict for the elapsed time.
write_statistics_resetting ==
    /\ call' = [op |-> "write_statistics"]
    /\ variables' = EmptyDict
    /\ logged' = <<"info: Writing statistics">>
    /\ returned' = "False"
    /\ \E elapsed \in ElapsedTimes :
         output_variables' =
           IF backend = "NONE" THEN output_variables
           ELSE Put(EmptyDict, N("total_time"),
                    OutputVariable(N("total_time"), elapsed))
    /\ UNCHANGED <<backend, config_output_variables, config_seed,
                   sequence_values, direct_value, best_individual, written,
                   history, coverage_set_directly>>
    /\ UNCHANGED <<assertion_vars, search_vars>>

\* A write_statistics that reports success when no individual was recorded.
write_statistics_reporting_success ==
    /\ call' = [op |-> "write_statistics"]
    /\ variables' = EmptyDict
    /\ logged' = <<"info: Writing statistics">>
    /\ returned' = IF backend = "NONE" THEN "False" ELSE "True"
    /\ \E elapsed \in ElapsedTimes :
         output_variables' =
           IF backend = "NONE" THEN output_variables
           ELSE Put(output_variables, N("total_time"),
                    OutputVariable(N("total_time"), elapsed))
    /\ UNCHANGED <<backend, config_output_variables, config_seed,
                   sequence_values, direct_value, best_individual, written, history,
                   coverage_set_directly>>
    /\ UNCHANGED <<assertion_vars, search_vars>>

\* write_statistics()
write_statistics ==
    /\ call' = [op |-> "write_statistics"]
    /\ variables' = EmptyDict
    /\ IF backend = "NONE"
       THEN /\ logged' = <<"info: Writing statistics">>
            /\ returned' = "False"
            /\ UNCHANGED <<output_variables, written>>
       ELSE \E elapsed \in ElapsedTimes :
            LET ov == Put(output_variables, N("total_time"),
                          OutputVariable(N("total_time"), elapsed))
            IN  /\ output_variables' = ov
                /\ IF best_individual = None
                   THEN /\ logged' = <<"info: Writing statistics",
                                       "error: No statistics has been saved">>
                        /\ returned' = "False"
                        /\ UNCHANGED written
                   ELSE LET r == GetOutputVariables(
                                   config_output_variables, ov,
                                   sequence_values, best_individual, FALSE)
                        IN  /\ logged' = <<"info: Writing statistics">>
                                           \o r.logged
                            /\ written' = Append(written, r.variables)
                            /\ returned' = "True"
    /\ UNCHANGED <<backend, config_output_variables, config_seed,
                   sequence_values, direct_value, best_individual, history,
                   coverage_set_directly>>
    /\ UNCHANGED <<assertion_vars, search_vars>>

Next ==
    \/ \E individual \in Chromosomes : current_individual(individual)
    \/ \E name \in DirectNames, value \in DirectValues :
         set_output_variable(OutputVariable(name, value))
    \/ \E variable \in RuntimeVariables, value \in DirectValues :
         set_output_variable_for_runtime_variable(variable, value)
    \/ \E individual \in TestSuiteChromosomes, skip_missing \in BOOLEAN :
         _get_output_variables(individual, skip_missing)
    \/ write_statistics

Spec == Init /\ [][Next]_vars

----------------------------------------------------------------------------
(* The collector and its seed: collectors constructed with different      *)
(* seeds, on which Random_Seed too is set directly.                       *)

SeedBackends == {"CONSOLE", "NONE"}

SeedConfigStrings == { <<"Random_Seed", ",", "Coverage">> }

SeedSeeds == {11, 12}

InitSeed ==
    /\ Constructed(SeedBackends, SeedConfigStrings, SeedSeeds)
    /\ NoAssertions
    /\ NoSearch

NextSeed ==
    \/ \E individual \in Chromosomes : current_individual(individual)
    \/ \E value \in DirectValues :
         set_output_variable_for_runtime_variable("Random_Seed", value)
    \/ \E value \in DirectValues :
         set_output_variable(OutputVariable(N("TARGET_CLASS"), value))
    \/ \E individual \in TestSuiteChromosomes :
         _get_output_variables(individual, FALSE)
    \/ write_statistics

SpecSeed == InitSeed /\ [][NextSeed]_vars

----------------------------------------------------------------------------
(* The collector and its requested names: configured lists with blanks    *)
(* and empty entries, and the two fixed names of the default list set      *)
(* directly.                                                               *)

NamesBackends == {"CONSOLE"}

NamesConfigStrings ==
    { <<>>,
      <<" ">>,
      <<"Coverage">>,
      <<" ", "Size", " ", ",", "Coverage", " ", " ">>,
      <<"Size", ",", ",", " ", "Missing">>,
      <<",", "Fitness", " ">>,
      <<"TARGET_CLASS", " ", ",", " ", "criterion">> }

NamesDirectNames == { N("TARGET_CLASS"), N("criterion") }

InitNames ==
    /\ Constructed(NamesBackends, NamesConfigStrings, Seeds)
    /\ NoAssertions
    /\ NoSearch

NextNames ==
    \/ \E individual \in TestSuiteChromosomes :
         current_individual(individual)
    \/ \E name \in NamesDirectNames, value \in DirectValues :
         set_output_variable(OutputVariable(name, value))
    \/ \E individual \in TestSuiteChromosomes, skip_missing \in BOOLEAN :
         _get_output_variables(individual, skip_missing)

SpecNames == InitNames /\ [][NextNames]_vars

----------------------------------------------------------------------------
(* What the claims speak of. *)

\* the requested names
Requested == Range(_get_output_variable_names(config_output_variables))

\* a name one of the three sources resolves
Resolvable(name) ==
    name \in DOMAIN output_variables \cup VariableFactoryNames
                \cup SequenceFactoryNames

\* the number of current_individual calls that passed both checks
Accepted == IF backend = "NONE" THEN 0 ELSE Len(history)

Wrote == call.op = "write_statistics"

----------------------------------------------------------------------------
(* The claims. *)

\* C1: with a backend configured, a write_statistics() that follows at
\* least one current_individual call with a TestSuiteChromosome returns
\* True and hands a dict to the backend's write_data.
C1_WriteSucceedsAfterIndividual ==
    (Wrote /\ backend # "NONE" /\ history # <<>>)
        => (returned = "True" /\ written # <<>>)

\* C2: write_statistics() returns False, raises nothing and hands nothing
\* to the backend whenever no backend is configured or no best individual
\* was recorded.
C2_WriteFailsWithoutBackendOrIndividual ==
    (Wrote /\ (backend = "NONE" \/ best_individual = None))
        => (returned = "False" /\ written = <<>>)

\* C2, its case: a failed write on a configured backend after variables
\* were set directly and only a chromosome of the wrong kind was sent.
C2_Witness ==
    /\ Wrote
    /\ backend # "NONE"
    /\ returned = "False"
    /\ history = <<>>
    /\ N("TARGET_CLASS") \in DOMAIN output_variables
    /\ direct_value # StartValue

\* C3: when Coverage is requested and was not set directly after the last
\* generation, the write that follows hands the backend a Coverage entry
\* equal to the coverage of the last chromosome accepted.
C3_WrittenCoverageIsFinalGeneration ==
    (/\ Wrote
     /\ backend # "NONE"
     /\ history # <<>>
     /\ ~coverage_set_directly
     /\ N("Coverage") \in Requested
     /\ \A name \in Requested : Resolvable(name))
        => /\ written # <<>>
           /\ N("Coverage") \in DOMAIN written[Len(written)]
           /\ written[Len(written)][N("Coverage")].value
                = history[Len(history)].coverage

\* C4: the flat dict output_variables never holds a key that is the name
\* of a registered sequence variable.
C4_NoSequenceNameInFlatDict ==
    DOMAIN output_variables \cap SequenceFactoryNames = {}

\* C4, its case: a sequence name was just set directly, after a generation
\* was recorded and statistics were written.
C4_Witness ==
    /\ call.op = "set_output_variable"
    /\ call.variable.name \in SequenceFactoryNames
    /\ history # <<>>
    /\ N("total_time") \in DOMAIN output_variables
    /\ N("Coverage") \in DOMAIN output_variables

\* the variables that name a registered sequence variable
SequenceVariables ==
    { OutputVariable(name, value) :
        name \in SequenceFactoryNames, value \in DirectValues }

\* C5, as claimed: set_output_variable with the name of any registered
\* sequence variable completes normally.
C5_EverySequenceNameIsRouted ==
    (call.op = "set_output_variable"
     /\ call.variable.name \in SequenceFactoryNames)
        => returned = "None"

\* C5, amended: set_output_variable with the name TotalExceptionsTimeline,
\* the one direct sequence factory, completes normally and puts the value
\* into that factory, the flat dict and the time lines staying as they
\* are; with the name of any other registered sequence variable it ends in
\* an AssertionError and changes nothing.
C5_OnlyDirectSequenceIsRouted ==
    [][\A variable \in SequenceVariables :
         set_output_variable(variable) =>
           IF variable.name = N("TotalExceptionsTimeline")
           THEN /\ returned' = "None"
                /\ direct_value' = variable.value
                /\ UNCHANGED <<output_variables, sequence_values>>
           ELSE /\ returned' = "AssertionError"
                /\ UNCHANGED <<output_variables, sequence_values,
                               direct_value>>]_vars

\* C5, its case: TotalExceptionsTimeline was set directly and the value
\* went into its factory.
C5_Witness ==
    /\ call.op = "set_output_variable"
    /\ call.variable.name = N("TotalExceptionsTimeline")
    /\ returned = "None"
    /\ direct_value = call.variable.value
    /\ direct_value # StartValue

\* a call of _get_output_variables that went through the whole list
Resolved ==
    /\ call.op = "_get_output_variables"
    /\ (call.skip_missing \/ \A name \in Requested : Resolvable(name))

\* the metric of a chromosome a scalar variable reports
Metric(name, individual) ==
    CASE name = N("Length") -> individual.total_length_of_test_cases
      [] name = N("Size") -> individual.size
      [] name = N("Coverage") -> individual.coverage
      [] name = N("Fitness") -> individual.fitness

\* the physical name of position i of a time line
Physical(name, i) == <<name[1], "_", IndexStr(i)>>

\* C6: a requested name in the flat dict resolves to the value set there,
\* whatever a chromosome factory of that name would compute; the factory
\* is asked only for a name absent from the flat dict, and a sequence
\* factory only for a name absent from both.
C6_DirectOverridesDerived ==
    Resolved =>
      \A name \in Requested :
        /\ name \in DOMAIN output_variables =>
             /\ name \in DOMAIN variables
             /\ variables[name] = output_variables[name]
        /\ (name \notin DOMAIN output_variables
            /\ name \in VariableFactoryNames) =>
             /\ name \in DOMAIN variables
             /\ variables[name]
                  = OutputVariable(name, Metric(name, call.individual))
        /\ (name \notin DOMAIN output_variables \cup VariableFactoryNames
            /\ name \in SequenceFactoryNames) =>
             /\ name \notin DOMAIN variables
             /\ \A i \in 1..Len(sequence_values[name[1]]) :
                  /\ Physical(name, i) \in DOMAIN variables
                  /\ variables[Physical(name, i)].value
                       = sequence_values[name[1]][i]

\* C6, its case: Coverage is in the flat dict with a value the individual
\* does not have, and resolves to the flat dict's value.
C6_Witness ==
    /\ Resolved
    /\ N("Coverage") \in Requested
    /\ N("Coverage") \in DOMAIN output_variables
    /\ output_variables[N("Coverage")].value # call.individual.coverage
    /\ variables[N("Coverage")] = output_variables[N("Coverage")]

\* what a current_individual call with a test suite leaves behind
Stored ==
    /\ \A name \in VariableFactoryNames :
         /\ name \in DOMAIN output_variables
         /\ output_variables[name]
              = OutputVariable(name, Metric(name, call.individual))
    /\ \A f \in Range(SequenceFactories) :
         Len(sequence_values[f]) = Len(history)

\* C7, as claimed: whatever the backend, a current_individual call with a
\* TestSuiteChromosome stores the chromosome's Length, Size, Coverage and
\* Fitness and appends one value to every time line.
C7_EveryCollectorStores ==
    (call.op = "current_individual"
     /\ call.individual \in TestSuiteChromosomes) => Stored

\* C7, amended: with a backend configured (console or file), a
\* current_individual call with a TestSuiteChromosome stores the
\* chromosome's Length, Size, Coverage and Fitness, overwriting the earlier
\* values, and appends one value to every time line, so that every time
\* line holds one value per such call, in call order; with no backend the
\* call stores nothing and every time line stays empty.
C7_ConfiguredCollectorStores ==
    /\ backend # "NONE" =>
         /\ (call.op = "current_individual"
             /\ call.individual \in TestSuiteChromosomes) => Stored
         /\ \A f \in Range(SequenceFactories) :
              Len(sequence_values[f]) = Len(history)
         /\ \A i \in 1..Len(history) :
              /\ sequence_values["CoverageTimeline"][i] = history[i].coverage
              /\ sequence_values["SizeTimeline"][i] = history[i].size
              /\ sequence_values["LengthTimeline"][i]
                   = history[i].total_length_of_test_cases
    /\ backend = "NONE" =>
         /\ \A f \in Range(SequenceFactories) : sequence_values[f] = <<>>
         /\ DOMAIN output_variables
              \cap {N("Length"), N("Size"), N("Fitness")} = {}

\* C7, its case: the second generation's chromosome overwrote the first's
\* different values.
C7_Witness ==
    /\ backend # "NONE"
    /\ call.op = "current_individual"
    /\ Len(history) = 2
    /\ history[1] # history[2]
    /\ call.individual = history[2]
    /\ output_variables[N("Coverage")].value = history[2].coverage
    /\ sequence_values["CoverageTimeline"]
         = <<history[1].coverage, history[2].coverage>>

\* C8: current_individual with a chromosome that is no TestSuiteChromosome
\* changes neither the flat dict, nor a time line, nor a direct factory's
\* value, nor the best individual.
C8_WrongKindChangesNothing ==
    [][\A individual \in OtherChromosomes :
         current_individual(individual) =>
           /\ returned' = "None"
           /\ UNCHANGED <<output_variables, sequence_values, direct_value,
                          best_individual>>]_vars

\* C8, its case: a collector with a backend and a recorded generation was
\* sent a chromosome of the wrong kind and logged the warning.
C8_Witness ==
    /\ backend # "NONE"
    /\ call.op = "current_individual"
    /\ call.individual \in OtherChromosomes
    /\ history # <<>>
    /\ logged = <<"warning: SearchStatistics expected a TestSuiteChromosome">>

\* the resolved variables that belong to the time line of a name
TimelineOf(name) ==
    { n \in DOMAIN variables : Len(n) >= 1 /\ n[1] = name[1] }

\* C9: after k accepted current_individual calls, resolving the requested
\* name CoverageTimeline yields exactly the k variables CoverageTimeline_1
\* .. CoverageTimeline_k, the i-th holding the coverage of generation i,
\* and no variable named CoverageTimeline.
C9_TimelineHasOneVariablePerGeneration ==
    (Resolved /\ N("CoverageTimeline") \in Requested) =>
      /\ TimelineOf(N("CoverageTimeline"))
           = { Physical(N("CoverageTimeline"), i) : i \in 1..Accepted }
      /\ \A i \in 1..Accepted :
           variables[Physical(N("CoverageTimeline"), i)]
             = OutputVariable(Physical(N("CoverageTimeline"), i),
                              history[i].coverage)

\* C9, its case: three generations, not all of the same coverage, resolve
\* to a time line of three variables.
C9_Witness ==
    /\ Resolved
    /\ N("CoverageTimeline") \in Requested
    /\ Accepted = 3
    /\ history[1].coverage # history[3].coverage
    /\ Cardinality(TimelineOf(N("CoverageTimeline"))) = 3

\* C10: when a requested name has no value in any of the three sources,
\* _get_output_variables raises nothing; without skip_missing it returns
\* the empty dict, with skip_missing it gives that name an empty value and
\* resolves every other requested name.
C10_MissingNameAbortsOrIsEmpty ==
    (call.op = "_get_output_variables"
     /\ \E name \in Requested : ~Resolvable(name)) =>
      /\ returned = "dict"
      /\ ~call.skip_missing => variables = EmptyDict
      /\ call.skip_missing =>
           \A name \in Requested :
             IF ~Resolvable(name)
             THEN /\ name \in DOMAIN variables
                  /\ variables[name] = OutputVariable(name, EmptyString)
             ELSE IF name \in DOMAIN output_variables \cup VariableFactoryNames
             THEN /\ name \in DOMAIN variables
                  /\ variables[name].value # EmptyString
             ELSE \A i \in 1..Len(sequence_values[name[1]]) :
                    Physical(name, i) \in DOMAIN variables

\* C10, its case: with skip_missing a name without a value sits between
\* two names that resolve, and all three are in the dict returned.
C10_Witness ==
    /\ call.op = "_get_output_variables"
    /\ call.skip_missing
    /\ N("Missing") \in Requested
    /\ ~Resolvable(N("Missing"))
    /\ variables[N("Missing")].value = EmptyString
    /\ N("Size") \in DOMAIN variables
    /\ N("Coverage") \in DOMAIN variables
    /\ history # <<>>

\* C11: once the collector is constructed the flat dict holds Random_Seed
\* with the configured seed, and no call but a direct set of Random_Seed
\* changes that entry.
C11_SeedRecordedAndKept ==
    /\ N("Random_Seed") \in DOMAIN output_variables
    /\ output_variables[N("Random_Seed")]
         = OutputVariable(N("Random_Seed"), config_seed)
    /\ [][~(call'.op = "set_output_variable"
            /\ call'.variable.name = N("Random_Seed")) =>
            /\ N("Random_Seed") \in DOMAIN output_variables'
            /\ output_variables'[N("Random_Seed")]
                 = output_variables[N("Random_Seed")]]_vars

\* C11, its case: generations were recorded and statistics written, and
\* the flat dict still holds the configured seed.
C11_Witness ==
    /\ call.op = "write_statistics"
    /\ backend # "NONE"
    /\ Len(history) >= 2
    /\ N("total_time") \in DOMAIN output_variables
    /\ output_variables[N("Random_Seed")].value = config_seed

\* C18, as claimed: a write_statistics() that returns False leaves the flat
\* dict and every time line as they were.
C18_FailedWriteChangesNothing ==
    [][(write_statistics /\ returned' = "False") =>
         UNCHANGED <<output_variables, sequence_values>>]_vars

\* C18, amended: write_statistics() puts total_time into the flat dict
\* whenever a backend is configured, before it looks for a best individual;
\* a call that fails for want of a best individual has set total_time and
\* changed nothing else, and a call that fails for want of a backend
\* leaves the flat dict and every time line as they were.
C18_TotalTimeAddedWithBackend ==
    [][write_statistics =>
         IF backend = "NONE"
         THEN /\ returned' = "False"
              /\ UNCHANGED <<output_variables, sequence_values,
                             direct_value>>
         ELSE /\ best_individual = None => returned' = "False"
              /\ DOMAIN output_variables'
                   = DOMAIN output_variables \cup {N("total_time")}
              /\ output_variables'[N("total_time")].value \in ElapsedTimes
              /\ \A name \in DOMAIN output_variables \ {N("total_time")} :
                   output_variables'[name] = output_variables[name]
              /\ UNCHANGED <<sequence_values, direct_value>>]_vars

\* C18, its case: a write on a configured backend failed after a generation
\* was sent, and total_time is in the flat dict.
C18_Witness ==
    /\ Wrote
    /\ backend # "NONE"
    /\ returned = "False"
    /\ history # <<>>
    /\ N("total_time") \in DOMAIN output_variables
    /\ logged = <<"info: Writing statistics",
                  "error: No statistics has been saved">>

\* the number of commas among the first p tokens of a configured string
CommasUpTo(config, p) ==
    Cardinality({ j \in 1..p : config[j] = "," })

\* the position of the k-th comma of a configured string, 0 for k = 0 and
\* one past its end for the comma after the last
CommaAt(config, k) ==
    IF k = 0 THEN 0
    ELSE IF k = CommasUpTo(config, Len(config)) + 1 THEN Len(config) + 1
    ELSE CHOOSE p \in DOMAIN config :
           config[p] = "," /\ CommasUpTo(config, p) = k

\* the i-th piece of a configured string: what stands between two commas
Piece(config, i) ==
    SubSeq(config, CommaAt(config, i - 1) + 1, CommaAt(config, i) - 1)

\* entry is piece without the blanks at its two ends
Trimmed(entry, piece) ==
    \E a \in 1..Len(piece) + 1, b \in 0..Len(piece) :
      /\ entry = SubSeq(piece, a, b)
      /\ \A j \in 1..a - 1 : j <= Len(piece) => piece[j] = " "
      /\ \A j \in b + 1..Len(piece) : piece[j] = " "
      /\ a <= b => (piece[a] # " " /\ piece[b] # " ")

\* C20: the requested names are the default list TARGET_CLASS, criterion,
\* Coverage when nothing is configured; otherwise they are the pieces of
\* the configured string between its commas, in order, each without the
\* blanks at its ends, none added and none dropped.  With the default list
\* and without skip_missing the resolution is non-empty only if
\* TARGET_CLASS and criterion were both set directly.
C20_RequestedNames ==
    call.op = "_get_output_variables" =>
      LET config == config_output_variables
          names == _get_output_variable_names(config)
      IN  /\ config = <<>> =>
               names = <<N("TARGET_CLASS"), N("criterion"), N("Coverage")>>
          /\ config # <<>> =>
               /\ Len(names) = CommasUpTo(config, Len(config)) + 1
               /\ \A i \in 1..Len(names) :
                    Trimmed(names[i], Piece(config, i))
          /\ (config = <<>> /\ ~call.skip_missing
              /\ variables # EmptyDict) =>
               /\ {N("TARGET_CLASS"), N("criterion")}
                    \subseteq DOMAIN output_variables
               /\ DOMAIN variables
                    = {N("TARGET_CLASS"), N("criterion"), N("Coverage")}

\* C20, its case: a configured string with blanks around its two entries
\* was resolved to exactly the two names.
C20_Witness ==
    /\ call.op = "_get_output_variables"
    /\ config_output_variables
         = <<" ", "Size", " ", ",", "Coverage", " ", " ">>
    /\ DOMAIN variables = {N("Size"), N("Coverage")}
    /\ history # <<>>

----------------------------------------------------------------------------
(* Assertions (pynguin/assertion).  Every assertion that was constructed   *)
(* is a cell of `objects`; its identity is its index there.                 *)

\* how many objects a run constructs at most
MaxObjects == 3

\* the test case the first assertion looks into, and those it is cloned to
TestCases == {"test_case", "new_test_case"}

NewTestCases == {"new_test_case"}

\* the offsets a clone shifts a position by
Offsets == {0, 20}

\* a reference to the variable at a position of a test case
VariableReference(test_case, position) ==
    [kind |-> "VariableReference",
     test_case |-> test_case, position |-> position]

\* source.clone(new_test_case, offset): the variable at the shifted
\* position of the new test case
VariableReference_clone(source, new_test_case, offset) ==
    VariableReference(new_test_case, source.position + offset)

\* the sources of the first assertions: absent, or one of two variables
Sources == {None} \cup {VariableReference("test_case", p) : p \in {0, 1}}

Values == {1337, 42}

Fields == {"field", "other"}

\* owners: absent, or a list of names
Owners == {None, [kind |-> "list", items |-> <<"owner">>]}

ComplexAssertion(source, value) ==
    [class |-> "ComplexAssertion", source |-> source, value |-> value]

PrimitiveAssertion(source, value) ==
    [class |-> "PrimitiveAssertion", source |-> source, value |-> value]

FieldAssertion(source, value, field, owners) ==
    [class |-> "FieldAssertion", source |-> source, value |-> value,
     field |-> field, owners |-> owners]

AssertionClasses ==
    {"ComplexAssertion", "PrimitiveAssertion", "FieldAssertion"}

\* every assertion the inputs can construct
Assertions ==
    {ComplexAssertion(s, v) : s \in Sources, v \in Values}
    \cup {PrimitiveAssertion(s, v) : s \in Sources, v \in Values}
    \cup UNION {{FieldAssertion(s, v, f, o) : s \in Sources, v \in Values} :
                  f \in Fields, o \in Owners}

\* the visitor an assertion is handed
visitor == [kind |-> "AssertionVisitor"]

\* one call received by a collaborator
Call(receiver, method, args) ==
    [receiver |-> receiver, method |-> method, args |-> args]

\* `if self._source`: a reference is true, None is false
Truthy(source) == source # None

\* visits as a field assertion
accept_visiting_field(self) ==
    <<Call(visitor, "visit_field_assertion", <<self>>)>>

\* ComplexAssertion.accept(visitor): the calls it makes
ComplexAssertion_accept(self) ==
    <<Call(visitor, "visit_complex_assertion", <<self>>)>>

\* FieldAssertion.accept(visitor)
FieldAssertion_accept(self) ==
    <<Call(visitor, "visit_field_assertion", <<self>>)>>

\* PrimitiveAssertion.accept(visitor)
PrimitiveAssertion_accept(self) ==
    <<Call(visitor, "visit_primitive_assertion", <<self>>)>>

\* keeps the source of the original
clone_keeping_source(a, new_test_case, offset) ==
    [result |-> ComplexAssertion(a.source, a.value), calls |-> <<>>]

\* binds an absent source to the new test case
clone_binding_absent_source(a, new_test_case, offset) ==
    [result |-> ComplexAssertion(
                  IF Truthy(a.source)
                  THEN VariableReference_clone(a.source, new_test_case, offset)
                  ELSE VariableReference(new_test_case, offset),
                  a.value),
     calls |-> IF Truthy(a.source)
               THEN <<Call(a.source, "clone", <<new_test_case, offset>>)>>
               ELSE <<>>]

\* ComplexAssertion.clone(new_test_case, offset): the assertion it returns
\* and the calls it makes
ComplexAssertion_clone(a, new_test_case, offset) ==
    [result |-> ComplexAssertion(
                  IF Truthy(a.source)
                  THEN VariableReference_clone(a.source, new_test_case, offset)
                  ELSE None,
                  a.value),
     calls |-> IF Truthy(a.source)
               THEN <<Call(a.source, "clone", <<new_test_case, offset>>)>>
               ELSE <<>>]

\* PrimitiveAssertion.clone(new_test_case, offset)
PrimitiveAssertion_clone(a, new_test_case, offset) ==
    [result |-> PrimitiveAssertion(
                  IF Truthy(a.source)
                  THEN VariableReference_clone(a.source, new_test_case, offset)
                  ELSE None,
                  a.value),
     calls |-> IF Truthy(a.source)
               THEN <<Call(a.source, "clone", <<new_test_case, offset>>)>>
               ELSE <<>>]

\* FieldAssertion.clone(new_test_case, offset)
FieldAssertion_clone(a, new_test_case, offset) ==
    [result |-> FieldAssertion(
                  IF Truthy(a.source)
                  THEN VariableReference_clone(a.source, new_test_case, offset)
                  ELSE None,
                  a.value, a.field, a.owners),
     calls |-> IF Truthy(a.source)
               THEN <<Call(a.source, "clone", <<new_test_case, offset>>)>>
               ELSE <<>>]

\* no call was made on the collector
CollectorUntouched == Constructed({"NONE"}, { <<>> }, Seeds)

\* a call of accept(visitor) on the assertion self
accept(self) ==
    /\ objects[self].class \in AssertionClasses
    /\ acall' = [op |-> "accept", self |-> self]
    /\ collaborator_calls' =
         CASE objects[self].class = "ComplexAssertion" ->
                ComplexAssertion_accept(self)
           [] objects[self].class = "FieldAssertion" ->
                FieldAssertion_accept(self)
           [] objects[self].class = "PrimitiveAssertion" ->
                PrimitiveAssertion_accept(self)
    /\ UNCHANGED <<objects, vars, search_vars>>

\* a call of clone(new_test_case, offset) on the assertion self
clone(self, new_test_case, offset) ==
    /\ Len(objects) < MaxObjects
    /\ objects[self].class \in AssertionClasses
    /\ LET a == objects[self]
           r == CASE a.class = "ComplexAssertion" ->
                       ComplexAssertion_clone(a, new_test_case, offset)
                  [] a.class = "FieldAssertion" ->
                       FieldAssertion_clone(a, new_test_case, offset)
                  [] a.class = "PrimitiveAssertion" ->
                       PrimitiveAssertion_clone(a, new_test_case, offset)
       IN  /\ objects' = Append(objects, r.result)
           /\ collaborator_calls' = r.calls
           /\ acall' = [op |-> "clone", self |-> self,
                        new_test_case |-> new_test_case, offset |-> offset,
                        result |-> Len(objects) + 1]
    /\ UNCHANGED <<vars, search_vars>>

\* one assertion was constructed
InitAssertion ==
    /\ objects \in {<<a>> : a \in Assertions}
    /\ acall = [op |-> "__init__"]
    /\ collaborator_calls = <<>>
    /\ CollectorUntouched
    /\ NoSearch

NextAssertion ==
    \/ \E self \in DOMAIN objects : accept(self)
    \/ \E self \in DOMAIN objects, new_test_case \in NewTestCases,
          offset \in Offsets :
         clone(self, new_test_case, offset)

SpecAssertion == InitAssertion /\ [][NextAssertion]_assertion_vars

\* the visitor method of each variant
OwnVisitMethod(class) ==
    CASE class = "ComplexAssertion" -> "visit_complex_assertion"
      [] class = "FieldAssertion" -> "visit_field_assertion"
      [] class = "PrimitiveAssertion" -> "visit_primitive_assertion"

\* C12: accept(visitor) makes exactly one call, on the visitor, of the
\* method of the assertion's own variant, with the assertion itself as
\* the argument, and leaves every assertion as it was.
C12_AcceptCallsOwnVisitMethod ==
    [][acall'.op = "accept" =>
         /\ objects' = objects
         /\ collaborator_calls' =
              <<Call(visitor, OwnVisitMethod(objects[acall'.self].class),
                     <<acall'.self>>)>>]_assertion_vars

\* C12, its case: a ComplexAssertion accepted a visitor.
C12_Witness ==
    /\ acall.op = "accept"
    /\ objects[acall.self].class = "ComplexAssertion"
    /\ Len(collaborator_calls) = 1

\* C13: the clone of an assertion with a source is a new assertion of the
\* same variant with the same value (and field and owners); its source is
\* the variable at the shifted position of the target test case, got by
\* one call of clone on the original source; the original is unchanged.
C13_CloneRebindsSourceAndKeepsValue ==
    [][(acall'.op = "clone" /\ Len(objects') > Len(objects)) =>
         LET o == objects[acall'.self]
             c == objects'[acall'.result]
             t == acall'.new_test_case
         IN  /\ \A i \in DOMAIN objects : objects'[i] = objects[i]
             /\ acall'.result \notin DOMAIN objects
             /\ o.source # None =>
                  /\ c.class = o.class
                  /\ c.value = o.value
                  /\ o.class = "FieldAssertion" =>
                       (c.field = o.field /\ c.owners = o.owners)
                  /\ c.source # None
                  /\ c.source.test_case = t
                  /\ c.source.position = o.source.position + acall'.offset
                  /\ o.source.test_case # t => c.source # o.source
                  /\ collaborator_calls' =
                       <<Call(o.source, "clone", <<t, acall'.offset>>)>>
      ]_assertion_vars

\* C13, its case: a ComplexAssertion over a variable of test_case was
\* cloned into new_test_case.
C13_Witness ==
    /\ acall.op = "clone"
    /\ objects[acall.self].class = "ComplexAssertion"
    /\ objects[acall.self].source = VariableReference("test_case", 1)
    /\ acall.offset = 20

\* C19: the clone of a ComplexAssertion without a source has no source
\* and the original's value, and is made without a call on the target
\* test case or a variable; a clone has no source only if the original
\* had none.
C19_AbsentSourceStaysAbsent ==
    (acall.op = "clone"
     /\ objects[acall.self].class = "ComplexAssertion") =>
      LET o == objects[acall.self]
          c == objects[acall.result]
      IN  /\ o.source = None =>
               /\ c = ComplexAssertion(None, o.value)
               /\ collaborator_calls = <<>>
          /\ c.source = None => o.source = None

\* C19, its case: a ComplexAssertion without a source was cloned.
C19_Witness ==
    /\ acall.op = "clone"
    /\ objects[acall.self].class = "ComplexAssertion"
    /\ objects[acall.self].source = None
    /\ objects[acall.result].source = None

----------------------------------------------------------------------------
(* Equality and hashing of assertions, and a set of them. *)

\* hash values are kept below this modulus
HashModulus == 2 ^ 16

\* hash of each string in use
StrHash(str) ==
    CASE str = "test_case" -> 3
      [] str = "new_test_case" -> 5
      [] str = "field" -> 7
      [] str = "other" -> 11
      [] str = "owner" -> 13

\* hash(None) is 0 here; hash of a reference, of a list of owners
AttributeHash(x) ==
    CASE x = None -> 0
      [] x.kind = "VariableReference" ->
           (31 * StrHash(x.test_case) + x.position) % HashModulus
      [] x.kind = "list" ->
           (31 * Len(x.items) + StrHash(x.items[1])) % HashModulus

\* equal only to itself
eq_by_identity(self, other) == self = other

\* equal whatever the two variants are
eq_ignoring_class(self, other) ==
    LET a == objects[self]
        b == objects[other]
    IN  \/ self = other
        \/ /\ a.source = b.source
           /\ a.value = b.value
           /\ (a.class = "FieldAssertion" /\ b.class = "FieldAssertion") =>
                (a.field = b.field /\ a.owners = b.owners)

\* Assertion.__eq__(self, other), on two assertions
Assertion_eq(self, other) ==
    LET a == objects[self]
        b == objects[other]
    IN  \/ self = other
        \/ /\ a.class = b.class
           /\ a.source = b.source
           /\ a.value = b.value
           /\ a.class = "FieldAssertion" =>
                (a.field = b.field /\ a.owners = b.owners)

\* a hash that differs between any two objects
hash_by_identity(self) == self

\* Assertion.__hash__(self)
Assertion_hash(self) ==
    LET a == objects[self]
    IN  (31 + 17 * AttributeHash(a.source) + 17 * a.value
            + (IF a.class = "FieldAssertion"
               THEN 17 * StrHash(a.field) + 17 * AttributeHash(a.owners)
               ELSE 0)) % HashModulus

\* an empty set
EmptySet == [class |-> "set", items |-> {}]

\* the items of a set after set.add(item): item joins unless a member has
\* its hash and is the item or equal to it
set_add(items, item) ==
    IF \E member \in items :
         /\ Assertion_hash(member) = Assertion_hash(item)
         /\ (member = item \/ Assertion_eq(member, item))
    THEN items
    ELSE items \cup {item}

\* the comparison self == other
__eq__(self, other) ==
    /\ objects[self].class \in AssertionClasses
    /\ objects[other].class \in AssertionClasses
    /\ acall' = [op |-> "__eq__", self |-> self, other |-> other,
                 result |-> Assertion_eq(self, other)]
    /\ collaborator_calls' = <<>>
    /\ UNCHANGED <<objects, vars, search_vars>>

\* hash(self)
__hash__(self) ==
    /\ objects[self].class \in AssertionClasses
    /\ acall' = [op |-> "__hash__", self |-> self,
                 result |-> Assertion_hash(self)]
    /\ collaborator_calls' = <<>>
    /\ UNCHANGED <<objects, vars, search_vars>>

\* a call of add(item) on the set self
add(self, item) ==
    /\ objects[self].class = "set"
    /\ objects[item].class \in AssertionClasses
    /\ objects' = [objects EXCEPT
                     ![self].items = set_add(objects[self].items, item)]
    /\ acall' = [op |-> "add", self |-> self, item |-> item,
                 before |-> objects[self].items]
    /\ collaborator_calls' = <<>>
    /\ UNCHANGED <<vars, search_vars>>

\* two assertions and an empty set were constructed
InitEquality ==
    /\ objects \in {<<a, b, EmptySet>> : a \in Assertions, b \in Assertions}
    /\ acall = [op |-> "__init__"]
    /\ collaborator_calls = <<>>
    /\ CollectorUntouched
    /\ NoSearch

NextEquality ==
    \/ \E self \in {1, 2}, other \in {1, 2} : __eq__(self, other)
    \/ \E self \in {1, 2} : __hash__(self)
    \/ \E item \in {1, 2} : add(3, item)

SpecEquality == InitEquality /\ [][NextEquality]_assertion_vars

\* a and b are of one variant and were constructed with identical
\* arguments
SameArguments(a, b) ==
    \/ /\ a.class = "FieldAssertion"
       /\ b.class = "FieldAssertion"
       /\ <<a.source, a.value, a.field, a.owners>>
            = <<b.source, b.value, b.field, b.owners>>
    \/ /\ a.class # "FieldAssertion"
       /\ a.class = b.class
       /\ <<a.source, a.value>> = <<b.source, b.value>>

\* C14: two assertions of one variant constructed with identical
\* arguments compare equal and have equal hashes, and a set that both are
\* added to holds one of them.
C14_SameArgumentsAreEqual ==
    /\ \A i \in {1, 2}, j \in {1, 2} :
         SameArguments(objects[i], objects[j]) =>
           /\ (acall.op = "__eq__" /\ acall.self = i /\ acall.other = j)
                => acall.result
           /\ (acall.op = "__hash__" /\ acall.self = i)
                => acall.result = Assertion_hash(j)
           /\ Assertion_hash(i) = Assertion_hash(j)
           /\ i # j => ~({i, j} \subseteq objects[3].items)
    /\ acall.op = "add" =>
         \E member \in objects[3].items :
           SameArguments(objects[member], objects[acall.item])

\* C14, its case: two FieldAssertions with identical arguments were both
\* added to the set, which holds the first.
C14_Witness ==
    /\ objects[1].class = "FieldAssertion"
    /\ objects[1].source # None
    /\ SameArguments(objects[1], objects[2])
    /\ acall.op = "add"
    /\ acall.item = 2
    /\ acall.before = {1}
    /\ objects[3].items = {1}

\* C15: two assertions that differ in variant, source, value, or (both
\* Field) in field or owners do not compare equal, and a set that both
\* are added to holds both.
C15_DifferentArgumentsAreUnequal ==
    /\ \A i \in {1, 2}, j \in {1, 2} :
         (/\ ~SameArguments(objects[i], objects[j])
          /\ acall.op = "__eq__"
          /\ acall.self = i
          /\ acall.other = j) => ~acall.result
    /\ acall.op = "add" =>
         /\ acall.before \subseteq objects[3].items
         /\ (\A member \in acall.before :
               ~SameArguments(objects[member], objects[acall.item]))
              => acall.item \in objects[3].items

\* C15, its case: a ComplexAssertion and a PrimitiveAssertion over the
\* same source and value are both in the set.
C15_Witness ==
    /\ objects[1].class = "ComplexAssertion"
    /\ objects[2].class = "PrimitiveAssertion"
    /\ objects[1].source # None
    /\ objects[1].source = objects[2].source
    /\ objects[1].value = objects[2].value
    /\ acall.op = "add"
    /\ objects[3].items = {1, 2}

----------------------------------------------------------------------------
(* Primitive trace entries and the assertions they yield. *)

\* how many objects a run of trace entries constructs at most
MaxTraceObjects == 6

\* the values a primitive trace entry holds
TraceValues == {1, 1337, 42}

PrimitiveTraceEntry(variable, value) ==
    [class |-> "PrimitiveTraceEntry", variable |-> variable, value |-> value]

\* every entry the inputs can construct
TraceEntries ==
    {PrimitiveTraceEntry(variable, value) :
       variable \in Sources \ {None}, value \in TraceValues}

\* PrimitiveTraceEntry.clone()
PrimitiveTraceEntry_clone(entry) ==
    PrimitiveTraceEntry(entry.variable, entry.value)

\* yields a ComplexAssertion
get_assertions_of_complex(entry) ==
    <<ComplexAssertion(entry.variable, entry.value)>>

\* PrimitiveTraceEntry.get_assertions(): the assertions it constructs
PrimitiveTraceEntry_get_assertions(entry) ==
    <<PrimitiveAssertion(entry.variable, entry.value)>>

\* s == t on two sets of assertions: as many items, and every item of s
\* has an equal one in t
set_eq(s, t) ==
    /\ Cardinality(s) = Cardinality(t)
    /\ \A x \in s : \E y \in t :
         /\ Assertion_hash(x) = Assertion_hash(y)
         /\ Assertion_eq(x, y)

\* a call of clone() on the trace entry self
clone_entry(self) ==
    /\ Len(objects) < MaxTraceObjects
    /\ objects[self].class = "PrimitiveTraceEntry"
    /\ objects' = Append(objects, PrimitiveTraceEntry_clone(objects[self]))
    /\ acall' = [op |-> "clone", self |-> self, result |-> Len(objects) + 1]
    /\ collaborator_calls' = <<>>
    /\ UNCHANGED <<vars, search_vars>>

\* a call of get_assertions() on the trace entry self: the assertion is
\* constructed and put into a new set
get_assertions(self) ==
    /\ Len(objects) + 2 <= MaxTraceObjects
    /\ objects[self].class = "PrimitiveTraceEntry"
    /\ LET made == PrimitiveTraceEntry_get_assertions(objects[self])
           item == Len(objects) + 1
       IN  /\ objects' = objects \o made
                           \o <<[EmptySet EXCEPT
                                   !.items = set_add(EmptySet.items, item)]>>
           /\ acall' = [op |-> "get_assertions", self |-> self,
                        result |-> item + 1]
    /\ collaborator_calls' = <<>>
    /\ UNCHANGED <<vars, search_vars>>

\* one primitive trace entry was constructed
InitTrace ==
    /\ objects \in {<<entry>> : entry \in TraceEntries}
    /\ acall = [op |-> "__init__"]
    /\ collaborator_calls = <<>>
    /\ CollectorUntouched
    /\ NoSearch

NextTrace ==
    \/ \E self \in DOMAIN objects : clone_entry(self)
    \/ \E self \in DOMAIN objects : get_assertions(self)

SpecTrace == InitTrace /\ [][NextTrace]_assertion_vars

\* the sets among the objects
SetObjects == {s \in DOMAIN objects : objects[s].class = "set"}

\* the set s holds the PrimitiveAssertion over (x, v) and nothing else
IsSingletonOver(s, x, v) ==
    \E item \in DOMAIN objects :
      /\ objects[s].items = {item}
      /\ objects[item].class = "PrimitiveAssertion"
      /\ objects[item].source = x
      /\ objects[item].value = v

\* C16: get_assertions() on a primitive trace entry over x with value v
\* returns a set whose one element is the PrimitiveAssertion over (x, v);
\* every clone of the entry has the entry's variable and value, and the
\* sets returned for an entry, for it again and for its clones are all
\* equal.
C16_GetAssertionsIsSingleton ==
    /\ acall.op = "get_assertions" =>
         /\ acall.result \in SetObjects
         /\ IsSingletonOver(acall.result, objects[acall.self].variable,
                            objects[acall.self].value)
    /\ \A e \in DOMAIN objects :
         objects[e].class = "PrimitiveTraceEntry" =>
           /\ objects[e].variable = objects[1].variable
           /\ objects[e].value = objects[1].value
    /\ \A s \in SetObjects :
         IsSingletonOver(s, objects[1].variable, objects[1].value)
    /\ \A s \in SetObjects, t \in SetObjects :
         set_eq(objects[s].items, objects[t].items)

\* C16, its case: the entry yielded a set, was cloned, and the clone
\* yielded a second set.
C16_Witness ==
    /\ Len(objects) = 6
    /\ objects[3].class = "set"
    /\ objects[4].class = "PrimitiveTraceEntry"
    /\ acall.op = "get_assertions"
    /\ acall.self = 4
    /\ acall.result = 6
    /\ objects[3].items # objects[6].items

----------------------------------------------------------------------------
(* The search loop: generations of a population, with elitism. *)

\* how many generation transitions a run makes at most
MaxGenerations == 3

\* the configured size of the population
PopulationSize == 2

\* the fitness values an evaluation can give
Fitnesses == {1, 2, 3}

\* lower or higher fitness is better, fixed for a run
Objectives == {"min", "max"}

\* an individual born in a generation, with its evaluated fitness
Individual(born, fitness) == [born |-> born, fitness |-> fitness]

\* fitness f is better than fitness g
Better(f, g) == IF objective = "min" THEN f < g ELSE f > g

\* the position of the best individual: the first of those that none is
\* better than
BestPosition(pop) ==
    CHOOSE i \in DOMAIN pop :
      /\ \A j \in DOMAIN pop : ~Better(pop[j].fitness, pop[i].fitness)
      /\ \A j \in 1..i - 1 : Better(pop[i].fitness, pop[j].fitness)

Best(pop) == pop[BestPosition(pop)]

\* the individuals of pop other than its best
Others(pop) == {pop[i] : i \in DOMAIN pop \ {BestPosition(pop)}}

\* the next generations without elitism: any of the merged individuals
Replacing_without_elitism(pop, offspring) ==
    {<<a, b>> : a \in Range(pop) \cup Range(offspring),
                b \in Range(pop) \cup Range(offspring)}

\* Replacing: the next generations an elitism policy allows: the best
\* individual, then any of the other individuals and the offspring
Replacing(pop, offspring) ==
    {<<Best(pop), other>> : other \in Others(pop) \cup Range(offspring)}

\* one generation transition: the offspring is evaluated, merged into the
\* next generation, and the best individual is reported
generation(fitness) ==
    /\ Len(reported) < MaxGenerations
    /\ \E next \in Replacing(population,
                             <<Individual(Len(reported) + 1, fitness)>>) :
         /\ population' = next
         /\ reported' = Append(reported, Best(next))
    /\ UNCHANGED <<objective, vars, assertion_vars>>

\* Initial: a population of the configured size was generated and
\* evaluated
InitSearch ==
    /\ objective \in Objectives
    /\ population \in {<<Individual(0, f), Individual(0, g)>> :
                         f \in Fitnesses, g \in Fitnesses}
    /\ Len(population) = PopulationSize
    /\ reported = <<>>
    /\ CollectorUntouched
    /\ NoAssertions

NextSearch == \E fitness \in Fitnesses : generation(fitness)

SpecSearch == InitSearch /\ [][NextSearch]_search_vars

\* C17: across a generation transition the best individual of the
\* population is in the next population, the best fitness of the next
\* population is not worse than that of the population, and the
\* individual reported is not worse than the one reported before it.
C17_ElitismKeepsBest ==
    [][reported' # reported =>
         /\ \E i \in DOMAIN population' : population'[i] = Best(population)
         /\ \A i \in DOMAIN population :
              \E j \in DOMAIN population' :
                ~Better(population[i].fitness, population'[j].fitness)
         /\ \A j \in DOMAIN population' :
              ~Better(population'[j].fitness,
                      reported'[Len(reported')].fitness)
         /\ reported # <<>> =>
              ~Better(reported[Len(reported)].fitness,
                      reported'[Len(reported')].fitness)
      ]_search_vars

\* C17, its case: after two generations the best individual is still one
\* of the initial population, beside a worse one born later.
C17_Witness ==
    /\ Len(reported) = 2
    /\ reported[2].born = 0
    /\ \E i \in DOMAIN population :
         /\ population[i].born = 2
         /\ Better(reported[2].fitness, population[i].fitness)

====
